---- MODULE Spec2Model ----
(***************************************************************************)
(* Model of src/modules.py: the scan / index / reconcile pipeline of       *)
(* classifyPath (imgPaths -> processImgs -> fileByClass) over a directory  *)
(* tree and the SQLite table media(hash PRIMARY KEY, imageClass).          *)
(*                                                                         *)
(* A path is a sequence of one-character strings, so that os.path.splitext *)
(* and str.lower are computed on the characters.  A directory entry is a   *)
(* record [path, data, ok]: data is the byte content (an index into the    *)
(* bounded set of contents) and ok says whether open(path, "rb") succeeds  *)
(* (it fails for a directory that rglob('*') yields, or for a file without *)
(* read permission).  The directory is the sequence of its entries in the  *)
(* order Path.rglob enumerates them.                                       *)
(***************************************************************************)
EXTENDS Integers, Sequences, FiniteSets, TLC

\* Largest number of entries under the scanned root.
MaxFiles == 2

\* Number of distinct byte contents a file can have.
MaxContent == 2

None == <<>>

Contents == 1..MaxContent

----------------------------------------------------------------------------
\* Characters and strings

UpperChars == <<"A","B","C","D","E","F","G","H","I","J","K","L","M",
                "N","O","P","Q","R","S","T","U","V","W","X","Y","Z">>

LowerChars == <<"a","b","c","d","e","f","g","h","i","j","k","l","m",
                "n","o","p","q","r","s","t","u","v","w","x","y","z">>

\* str.lower on one character.
lowerChar(c) ==
    IF \E i \in 1..Len(UpperChars) : UpperChars[i] = c
    THEN LowerChars[CHOOSE i \in 1..Len(UpperChars) : UpperChars[i] = c]
    ELSE c

\* str.lower
lower(s) == [i \in 1..Len(s) |-> lowerChar(s[i])]

\* str.rfind of a single character: the last index of c in s, 0 when absent
\* (Python's -1, shifted to 1-based indexing).
rfind(s, c) ==
    IF \E i \in 1..Len(s) : s[i] = c
    THEN CHOOSE i \in 1..Len(s) : s[i] = c /\ \A j \in (i+1)..Len(s) : s[j] # c
    ELSE 0

\* os.path.splitext (genericpath._splitext), the extension part: the suffix
\* from the last dot, when that dot lies after the last separator and some
\* character between the separator and the dot is not a dot; else empty.
splitext(p) ==
    LET sepIndex == rfind(p, "/")
        dotIndex == rfind(p, ".")
    IN  IF dotIndex > sepIndex
           /\ \E k \in (sepIndex+1)..(dotIndex-1) : p[k] # "."
        THEN SubSeq(p, dotIndex, Len(p))
        ELSE <<>>

imgExts == << <<".","j","p","g">>, <<".","j","p","e","g">>, <<".","p","n","g">>,
              <<".","w","e","b","p">>, <<".","b","m","p">>, <<".","a","v","i","f">> >>

\* Variant of isImg without .lower(): the extension is compared as written.
isImgAnyCase(filePath) ==
    \E i \in 1..Len(imgExts) : imgExts[i] = splitext(filePath)

isImg(filePath) ==
    LET fileExtension == splitext(filePath)
    IN  \E i \in 1..Len(imgExts) : imgExts[i] = lower(fileExtension)

----------------------------------------------------------------------------
\* The file system under the scanned root

\* Paths the directory changes draw from.
Paths == { <<"a",".","p","n","g">>,
           <<"b",".","P","N","G">>,
           <<"d","/","c",".","j","p","g">>,
           <<"b",".","t","x","t">> }

\* Paths of the scanner specification: stems and suffixes concatenated.
Stems == { <<"a">>, <<".">>, <<"d","/","a">>, <<"d",".","x","/">>, <<"a",".","b">> }

Suffixes == { <<".","j","p","g">>, <<".","J","P","G">>, <<".","j","p","e","g">>,
              <<".","p","n","g">>, <<".","P","n","G">>, <<".","w","e","b","p">>,
              <<".","b","m","p">>, <<".","a","v","i","f">>, <<".","A","V","I","F">>,
              <<".","t","x","t">>, <<".","g","i","f">>, <<".","p","n">>,
              <<".","p","n","g","x">>, <<"p","n","g">>, <<".","p","n","g",".">>,
              <<".","p","n","g","/","e">>, <<>> }

\* A path names a file: it does not end in a separator and is not ".".
ScanPaths ==
    { p \in { s \o x : s \in Stems, x \in Suffixes } :
        p[Len(p)] # "/" /\ p # <<".">> }

Entry(p, d, r) == [path |-> p, data |-> d, ok |-> r]

pathsOf(d) == { d[i].path : i \in 1..Len(d) }

\* The entry of directory d at path p (p is a path of d).
entryAt(d, p) == d[CHOOSE i \in 1..Len(d) : d[i].path = p]

\* Sequence s with x put at position k (1..Len(s)+1).
InsertAt(s, k, x) == SubSeq(s, 1, k-1) \o <<x>> \o SubSeq(s, k, Len(s))

\* Sequence s without its k-th element.
RemoveAt(s, k) == SubSeq(s, 1, k-1) \o SubSeq(s, k+1, Len(s))

----------------------------------------------------------------------------
\* Pure functions of modules.py

\* hashlib.md5(imgData).hexdigest(): a function of the bytes alone, taken to
\* be injective on the bounded set of contents.
md5(imgData) == <<"md5", imgData>>

\* genHash: [err, hash]; err when open() raises.
\* (genHashOfName digests the path string, Len standing for its bytes.)
genHashOfName(d, imgPath) ==
    LET e == entryAt(d, imgPath)
    IN  IF e.ok THEN [err |-> FALSE, hash |-> md5(Len(imgPath))]
        ELSE [err |-> TRUE, hash |-> None]

genHash(d, imgPath) ==
    LET e == entryAt(d, imgPath)
    IN  IF e.ok THEN [err |-> FALSE, hash |-> md5(e.data)]
        ELSE [err |-> TRUE, hash |-> None]

classifyImg(imgPath) == "thing"

\* imgPaths: the paths rglob enumerates that pass isImg, in enumeration order.
imgPaths(d) ==
    LET keep == SelectSeq(d, LAMBDA e : isImg(e.path))
    IN  [i \in 1..Len(keep) |-> keep[i].path]

\* SELECT EXISTS(SELECT 1 FROM media WHERE hash = hashValue)
\* (Variant hashExistNever: the query never finds the row.)
hashExistNever(tbl, hashValue) == FALSE

hashExist(tbl, hashValue) ==
    \E i \in 1..Len(tbl) : tbl[i].hash = hashValue

\* INSERT OR REPLACE INTO media(hash, imageClass): a row with the same primary
\* key is deleted and the new row is added with a fresh rowid.
Row(h, c) == [hash |-> h, imageClass |-> c]

insertOrReplace(tbl, h, c) ==
    Append(SelectSeq(tbl, LAMBDA r : r.hash # h), Row(h, c))

\* Lines 103-107 of processImgs for a file with hash imgHash: the table after
\* the iteration.
\* (Variant indexFileNoGuard: a plain INSERT without the hashExist guard.)
indexFileNoGuard(tbl, imgHash, file) ==
    Append(tbl, Row(imgHash, classifyImg(file)))

indexFile(tbl, imgHash, file) ==
    IF hashExist(tbl, imgHash) THEN tbl
    ELSE insertOrReplace(tbl, imgHash, classifyImg(file))

\* classifyImg is called in the iteration (line 105).
classifies(tbl, imgHash) == ~hashExist(tbl, imgHash)

\* detectFileWithHash over the generator fs: the generator is advanced past
\* every file it yields, up to and including the match (or the file on which
\* genHash raises); rest is what the generator still holds afterwards.
\* (Variant detectFileWithHashRaises: an exhausted generator is an error.
\*  Variant detectFileWithHashAny: the first hashed file is returned whatever
\*  its hash.)
RECURSIVE detectFileWithHashRaises(_, _, _)
detectFileWithHashRaises(d, fs, targetHash) ==
    IF fs = <<>> THEN [err |-> TRUE, file |-> None, rest |-> <<>>]
    ELSE LET file == Head(fs)
             g    == genHash(d, file)
         IN  IF ~isImg(file) THEN detectFileWithHashRaises(d, Tail(fs), targetHash)
             ELSE IF g.err THEN [err |-> TRUE, file |-> None, rest |-> Tail(fs)]
             ELSE IF g.hash = targetHash
                  THEN [err |-> FALSE, file |-> file, rest |-> Tail(fs)]
             ELSE detectFileWithHashRaises(d, Tail(fs), targetHash)

RECURSIVE detectFileWithHashAny(_, _, _)
detectFileWithHashAny(d, fs, targetHash) ==
    IF fs = <<>> THEN [err |-> FALSE, file |-> None, rest |-> <<>>]
    ELSE LET file == Head(fs)
             g    == genHash(d, file)
         IN  IF ~isImg(file) THEN detectFileWithHashAny(d, Tail(fs), targetHash)
             ELSE IF g.err THEN [err |-> TRUE, file |-> None, rest |-> Tail(fs)]
             ELSE [err |-> FALSE, file |-> file, rest |-> Tail(fs)]

RECURSIVE detectFileWithHash(_, _, _)
detectFileWithHash(d, fs, targetHash) ==
    IF fs = <<>> THEN [err |-> FALSE, file |-> None, rest |-> <<>>]
    ELSE LET file == Head(fs)
             g    == genHash(d, file)
         IN  IF ~isImg(file) THEN detectFileWithHash(d, Tail(fs), targetHash)
             ELSE IF g.err THEN [err |-> TRUE, file |-> None, rest |-> Tail(fs)]
             ELSE IF g.hash = targetHash
                  THEN [err |-> FALSE, file |-> file, rest |-> Tail(fs)]
             ELSE detectFileWithHash(d, Tail(fs), targetHash)

\* The files the generator yielded while it advanced from fs to rest.
consumed(fs, rest) == { fs[i] : i \in 1..(Len(fs) - Len(rest)) }

EmptyDict == [l \in {} |-> <<>>]

\* classDict with the key imageClass present (lines 195-196).
withKey(cd, imageClass) ==
    [l \in DOMAIN cd \cup {imageClass} |-> IF l \in DOMAIN cd THEN cd[l] ELSE <<>>]

\* classDict[imageClass].append(filePath)
appendTo(cd, imageClass, filePath) ==
    [cd EXCEPT ![imageClass] = Append(@, filePath)]

----------------------------------------------------------------------------
\* State

VARIABLES
    disk,       \* the directory under homeDir(), in rglob's enumeration order
    committed,  \* rows of media in the database file, in rowid order
    view,       \* rows of media as the open connection sees them
    connOpen,   \* a connection opened by connectDB has not been closed
    pc,         \* "idle", "index", "reconcile", "returned", "raised"
    files,      \* what the generator passed to processImgs/fileByClass still holds
    rows,       \* rows of fileByClass's SELECT not yet iterated
    classDict,  \* fileByClass's classDict
    result,     \* the mapping classifyPath returned
    hashed,     \* history: paths genHash was called on during this run
    classified, \* history: paths classifyImg was called on during this run
    indexed,    \* history: paths whose hash this run inserted
    fresh,      \* history: the table was empty when this run connected
    touched,    \* history: the directory changed since processImgs last completed
    idxTable,   \* history: the table as processImgs last left it
    change      \* history: the last directory change since the last run

vars == <<disk, committed, view, connOpen, pc, files, rows, classDict, result,
          hashed, classified, indexed, fresh, touched, idxTable, change>>

runVars == <<files, rows, classDict, result, hashed, classified, indexed, fresh>>

Init ==
    /\ disk = <<>>
    /\ committed = <<>>
    /\ view = <<>>
    /\ connOpen = FALSE
    /\ pc = "idle"
    /\ files = <<>>
    /\ rows = <<>>
    /\ classDict = EmptyDict
    /\ result = EmptyDict
    /\ hashed = {}
    /\ classified = {}
    /\ indexed = {}
    /\ fresh = FALSE
    /\ touched = TRUE
    /\ idxTable = <<>>
    /\ change = {}

----------------------------------------------------------------------------
\* classifyPath

\* Lines 220-226: connectDB, createTable (IF NOT EXISTS), files = imgPaths(...)
Connect ==
    /\ pc = "idle"
    /\ pc' = "index"
    /\ connOpen' = TRUE
    /\ view' = committed
    /\ files' = imgPaths(disk)
    /\ fresh' = (committed = <<>>)
    /\ UNCHANGED <<disk, committed, rows, classDict, result, hashed, classified,
                   indexed, touched, idxTable, change>>

\* One iteration of processImgs's loop (lines 99-107).
ProcessImg ==
    /\ pc = "index"
    /\ files # <<>>
    /\ LET file == Head(files)
           g    == genHash(disk, file)
       IN  /\ files' = Tail(files)
           /\ IF ~isImg(file)
              THEN UNCHANGED <<pc, view, hashed, classified, indexed>>
              ELSE /\ hashed' = hashed \cup {file}
                   /\ IF g.err
                      THEN /\ pc' = "raised"
                           /\ UNCHANGED <<view, classified, indexed>>
                      ELSE /\ view' = indexFile(view, g.hash, file)
                           /\ classified' = IF classifies(view, g.hash)
                                             THEN classified \cup {file}
                                             ELSE classified
                           /\ indexed' = IF view' # view
                                          THEN indexed \cup {file}
                                          ELSE indexed
                           /\ UNCHANGED pc
    /\ UNCHANGED <<disk, committed, connOpen, rows, classDict, result, fresh,
                   touched, idxTable, change>>

\* processImgs returns; lines 230-232 and 191-192: the generator is created
\* anew and fileByClass selects the rows (a table scan, in rowid order).
StartFileByClass ==
    /\ pc = "index"
    /\ files = <<>>
    /\ pc' = "reconcile"
    /\ files' = imgPaths(disk)
    /\ rows' = view
    /\ classDict' = EmptyDict
    /\ touched' = FALSE
    /\ idxTable' = view
    /\ UNCHANGED <<disk, committed, view, connOpen, result, hashed, classified,
                   indexed, fresh, change>>

\* One iteration of fileByClass's loop (lines 193-199).
FileByClassRow ==
    /\ pc = "reconcile"
    /\ rows # <<>>
    /\ LET imageClass == Head(rows).imageClass
           hashValue  == Head(rows).hash
           cd         == withKey(classDict, imageClass)
           r          == detectFileWithHash(disk, files, hashValue)
       IN  /\ rows' = Tail(rows)
           /\ files' = r.rest
           /\ hashed' = hashed \cup consumed(files, r.rest)
           /\ IF r.err
              THEN /\ pc' = "raised"
                   /\ classDict' = cd
              ELSE /\ UNCHANGED pc
                   /\ classDict' = IF r.file # None
                                   THEN appendTo(cd, imageClass, r.file)
                                   ELSE cd
    /\ UNCHANGED <<disk, committed, view, connOpen, result, classified, indexed,
                   fresh, touched, idxTable, change>>

\* Lines 200 and 234-236: fileByClass returns classDict, closeConnection
\* commits and closes, classifyPath returns the result.
Return ==
    /\ pc = "reconcile"
    /\ rows = <<>>
    /\ pc' = "returned"
    /\ committed' = view
    /\ connOpen' = FALSE
    /\ result' = classDict
    /\ UNCHANGED <<disk, view, files, rows, classDict, hashed, classified, indexed,
                   fresh, touched, idxTable, change>>

\* The call is over (lines 240-241): the process ends, or the exception is
\* handled and the connection object that was never closed is destroyed, which
\* rolls its open transaction back.
Exit ==
    /\ pc \in {"returned", "raised"}
    /\ pc' = "idle"
    /\ connOpen' = FALSE
    /\ view' = committed
    /\ files' = <<>>
    /\ rows' = <<>>
    /\ classDict' = EmptyDict
    /\ result' = EmptyDict
    /\ hashed' = {}
    /\ classified' = {}
    /\ indexed' = {}
    /\ fresh' = FALSE
    /\ change' = {}
    /\ UNCHANGED <<disk, committed, touched, idxTable>>

----------------------------------------------------------------------------
\* Directory changes between calls

\* The stored label of the content of entry e, if its hash has a row.
storedLabels(tbl, e) ==
    { tbl[i].imageClass : i \in { j \in 1..Len(tbl) : e.ok /\ tbl[j].hash = md5(e.data) } }

CreateFile ==
    /\ pc = "idle"
    /\ Len(disk) < MaxFiles
    /\ \E p \in Paths \ pathsOf(disk), d \in Contents, r \in BOOLEAN, k \in 1..(Len(disk)+1) :
        /\ (~r => d = 1)
        /\ disk' = InsertAt(disk, k, Entry(p, d, r))
    /\ touched' = TRUE
    /\ change' = {}
    /\ UNCHANGED <<committed, view, connOpen, pc, runVars, idxTable>>

DeleteFile ==
    /\ pc = "idle"
    /\ \E k \in 1..Len(disk) :
        /\ disk' = RemoveAt(disk, k)
        /\ change' = IF isImg(disk[k].path) /\ storedLabels(committed, disk[k]) # {}
                     THEN {[kind |-> "removed", old |-> disk[k].path, new |-> disk[k].path]}
                     ELSE {}
    /\ touched' = TRUE
    /\ UNCHANGED <<committed, view, connOpen, pc, runVars, idxTable>>

MoveFile ==
    /\ pc = "idle"
    /\ \E k \in 1..Len(disk), p \in Paths \ pathsOf(disk), k2 \in 1..Len(disk) :
        /\ disk' = InsertAt(RemoveAt(disk, k), k2, [disk[k] EXCEPT !.path = p])
        /\ change' = IF isImg(disk[k].path) /\ isImg(p)
                        /\ storedLabels(committed, disk[k]) # {}
                     THEN {[kind |-> "moved", old |-> disk[k].path, new |-> p]}
                     ELSE {}
    /\ touched' = TRUE
    /\ UNCHANGED <<committed, view, connOpen, pc, runVars, idxTable>>

Next ==
    \/ Connect
    \/ ProcessImg
    \/ StartFileByClass
    \/ FileByClassRow
    \/ Return
    \/ Exit
    \/ CreateFile
    \/ DeleteFile
    \/ MoveFile

Spec == Init /\ [][Next]_vars

----------------------------------------------------------------------------
\* The scanner specification: every directory of at most MaxFiles files that
\* holds one file named from ScanPaths, of any content, beside files named
\* from Paths, of the first content; scanned, indexed and reconciled.

SmallEntries == { Entry(p, 1, TRUE) : p \in Paths }

BaseDisks ==
    { b \in UNION { [1..n -> SmallEntries] : n \in 0..(MaxFiles - 1) } :
        \A i, j \in 1..Len(b) : i # j => b[i].path # b[j].path }

ScanDisks ==
    UNION { { InsertAt(b, k, Entry(p, d, TRUE)) :
                k \in 1..(Len(b) + 1), p \in ScanPaths \ pathsOf(b), d \in Contents } :
            b \in BaseDisks }

InitScan ==
    /\ disk \in ScanDisks
    /\ committed = <<>>
    /\ view = <<>>
    /\ connOpen = FALSE
    /\ pc = "idle"
    /\ files = <<>>
    /\ rows = <<>>
    /\ classDict = EmptyDict
    /\ result = EmptyDict
    /\ hashed = {}
    /\ classified = {}
    /\ indexed = {}
    /\ fresh = FALSE
    /\ touched = TRUE
    /\ idxTable = <<>>
    /\ change = {}

NextScan ==
    \/ Connect
    \/ ProcessImg
    \/ StartFileByClass
    \/ FileByClassRow
    \/ Return
    \/ Exit

SpecScan == InitScan /\ [][NextScan]_vars

----------------------------------------------------------------------------
\* Vocabulary of the properties

Range(s) == { s[i] : i \in 1..Len(s) }

\* All paths listed in a class-to-paths mapping, and their number.
pathsIn(cd) == UNION { Range(cd[l]) : l \in DOMAIN cd }

RECURSIVE sumLen(_, _)
sumLen(cd, ls) ==
    IF ls = {} THEN 0
    ELSE LET l == CHOOSE x \in ls : TRUE
         IN  Len(cd[l]) + sumLen(cd, ls \ {l})

countIn(cd) == sumLen(cd, DOMAIN cd)

\* The entries of d that are readable image files, by position.
imageAt(d) == { i \in 1..Len(d) : isImg(d[i].path) }

\* The content of position i of d differs from every other file's.
uniqueContent(d, i) ==
    \A j \in 1..Len(d) : (j # i /\ d[j].ok /\ d[i].ok) => d[j].data # d[i].data

hashesOf(tbl) == { tbl[i].hash : i \in 1..Len(tbl) }

labelsOf(tbl) == { tbl[i].imageClass : i \in 1..Len(tbl) }

noDuplicateHash(tbl) == \A i, j \in 1..Len(tbl) : tbl[i].hash = tbl[j].hash => i = j

\* The image paths of the pools, written out: a plain stem followed by an
\* allowed extension in any letter case.
ImagePaths == { <<"a",".","p","n","g">>, <<"b",".","P","N","G">>,
                <<"d","/","c",".","j","p","g">> }

PlainStems == { <<"a">>, <<"d","/","a">>, <<"a",".","b">> }

ImageSuffixes == { <<".","j","p","g">>, <<".","J","P","G">>, <<".","j","p","e","g">>,
                   <<".","p","n","g">>, <<".","P","n","G">>, <<".","w","e","b","p">>,
                   <<".","b","m","p">>, <<".","a","v","i","f">>, <<".","A","V","I","F">> }

ExpectedImages == ImagePaths \cup { s \o x : s \in PlainStems, x \in ImageSuffixes }

----------------------------------------------------------------------------
\* C1. Round trip: when classifyPath has returned (processImgs indexed the
\* directory, the directory did not change, fileByClass ran over a fresh
\* imgPaths generator), every image file whose content differs from every
\* other file's is listed in the result under the label stored for its hash.
C1_RoundTrip ==
    pc = "returned" =>
        \A i \in imageAt(disk) :
            uniqueContent(disk, i) =>
                \E k \in 1..Len(committed) :
                    /\ committed[k].hash = md5(disk[i].data)
                    /\ committed[k].imageClass \in DOMAIN result
                    /\ disk[i].path \in Range(result[committed[k].imageClass])

----------------------------------------------------------------------------
\* C2. Idempotence of indexing: when processImgs completes over a directory
\* that has not changed since processImgs last completed, the media table is
\* exactly the table the earlier run left (same rows, same labels) and no hash
\* has two rows.
C2_IndexingIdempotent ==
    [][(pc = "index" /\ pc' = "reconcile" /\ ~touched)
          => (view' = idxTable /\ noDuplicateHash(view'))]_vars

\* A second processImgs has completed over an unchanged directory holding two
\* files of one content and one of another, with rows for both hashes.
C2_Witness ==
    /\ pc = "reconcile"
    /\ ~fresh
    /\ Len(idxTable) = 2
    /\ Len(disk) >= 2
    /\ \E i, j \in imageAt(disk) : i # j /\ disk[i].data = disk[j].data
    /\ hashed = pathsOf(disk)
    /\ indexed = {}

----------------------------------------------------------------------------
\* C3. Move tolerance: an indexed image file was moved to a new path under
\* the root (same content, the store untouched) and classifyPath then
\* returned: the new path is listed under the label stored for the file's
\* hash, and the old path is listed nowhere.  Stated for a moved file whose
\* content differs from every other file's.
C3_MoveTolerance ==
    \A m \in change :
        (pc = "returned" /\ m.kind = "moved") =>
            \A i \in imageAt(disk) :
                (disk[i].path = m.new /\ uniqueContent(disk, i)) =>
                    /\ m.old \notin pathsIn(result)
                    /\ \E k \in 1..Len(committed) :
                        /\ committed[k].hash = md5(disk[i].data)
                        /\ committed[k].imageClass \in DOMAIN result
                        /\ m.new \in Range(result[committed[k].imageClass])

----------------------------------------------------------------------------
\* C4. Deletion: an indexed file was removed from disk while its row stayed
\* in the store.  The next classifyPath does not list the removed path under
\* any label, neither while fileByClass builds the mapping nor in the mapping
\* returned, and it raises only when some image file cannot be read: the row
\* without a file is an ordinary no-match.
C4_DeletedFileDropped ==
    \A c \in change :
        c.kind = "removed" =>
            /\ c.old \notin pathsIn(classDict) \cup pathsIn(result)
            /\ pc = "raised" => \E i \in imageAt(disk) : ~disk[i].ok

\* classifyPath returned after the removal of an indexed file: the row of the
\* removed file is still stored, no file has its hash, and another file was
\* resolved.
C4_Witness ==
    /\ pc = "returned"
    /\ \E c \in change : c.kind = "removed"
    /\ \E k \in 1..Len(committed) :
          \A i \in 1..Len(disk) : md5(disk[i].data) # committed[k].hash
    /\ pathsIn(result) # {}

----------------------------------------------------------------------------
\* C5. fileByClass computes the per-record full-list search: when file hashes
\* are pairwise distinct, the mapping it returns has the labels and, under
\* each label, the set of paths of the reference reconciler, which maps every
\* hash of a current image file to its path and looks each stored row up.
refReconcile(d, tbl) ==
    [l \in labelsOf(tbl) |->
        { d[i].path : i \in { j \in imageAt(d) :
                                \E k \in 1..Len(tbl) :
                                    /\ tbl[k].imageClass = l
                                    /\ tbl[k].hash = md5(d[j].data) } }]

asSets(cd) == [l \in DOMAIN cd |-> Range(cd[l])]

C5_FullListSearch ==
    (pc = "returned" /\ \A i \in imageAt(disk) : uniqueContent(disk, i))
        => asSets(result) = refReconcile(disk, committed)

----------------------------------------------------------------------------
\* C6 as stated. Starting from an empty table, when classifyPath has returned
\* the table holds exactly one row per distinct content hash of the image
\* files, each labelled "thing", and the result maps the label to exactly the
\* image paths of the directory.
firstOfContent(d) ==
    SelectSeq([i \in 1..Len(d) |->
                  IF isImg(d[i].path)
                     /\ \A j \in 1..(i-1) : isImg(d[j].path) => d[j].data # d[i].data
                  THEN d[i].path ELSE None],
              LAMBDA x : x # None)

oneRowPerImageHash(d, tbl) ==
    /\ noDuplicateHash(tbl)
    /\ Range(tbl) = { Row(md5(d[i].data), "thing") : i \in imageAt(d) }

C6_AllImagePathsReturned ==
    (pc = "returned" /\ fresh) =>
        /\ oneRowPerImageHash(disk, committed)
        /\ DOMAIN result \subseteq {"thing"}
        /\ pathsIn(result) = { disk[i].path : i \in imageAt(disk) }

\* C6 as amended. Starting from an empty table, when classifyPath has returned
\* the table holds exactly one row per distinct content hash of the image
\* files, each labelled "thing", and no other row; the result is empty when
\* the directory has no image file and otherwise maps "thing" to one path per
\* distinct content hash, the first file of that content in traversal order,
\* listed in traversal order.
C6_OnePathPerHash ==
    (pc = "returned" /\ fresh) =>
        /\ oneRowPerImageHash(disk, committed)
        /\ IF imageAt(disk) = {}
           THEN result = EmptyDict
           ELSE /\ DOMAIN result = {"thing"}
                /\ result["thing"] = firstOfContent(disk)

\* The scenario of the specification: a.png and b.txt, one row, one path;
\* with b.txt holding the same bytes as a.png.
C6_Witness ==
    /\ pc = "returned"
    /\ fresh
    /\ pathsOf(disk) = { <<"a",".","p","n","g">>, <<"b",".","t","x","t">> }
    /\ \A i \in 1..Len(disk) : disk[i].data = 1 /\ disk[i].ok
    /\ committed = << Row(md5(1), "thing") >>
    /\ result = [l \in {"thing"} |-> << <<"a",".","p","n","g">> >>]

----------------------------------------------------------------------------
\* C7. The store handle is released on every exit path of classifyPath: when
\* an error has left classifyPath the connection is closed and every inserted
\* row is committed.
C7_HandleReleasedOnError ==
    pc = "raised" => (~connOpen /\ committed = view)

----------------------------------------------------------------------------
\* C8. Scanner filter: imgPaths yields a path of the directory if and only if
\* its extension, in any letter case, is an allowed image extension; and only
\* such paths are ever yielded, hashed, classified, stored or returned.
C8_ScannerFilter ==
    /\ Range(imgPaths(disk)) = pathsOf(disk) \cap ExpectedImages
    /\ pc \in {"index", "reconcile"} => Range(files) \subseteq ExpectedImages
    /\ hashed \cup classified \cup indexed \subseteq ExpectedImages
    /\ pathsIn(classDict) \cup pathsIn(result) \subseteq ExpectedImages
    /\ pc = "returned" => Len(committed) <= Cardinality(pathsOf(disk) \cap ExpectedImages)

\* classifyPath returned over a directory with an image file whose extension
\* is in upper or mixed case, which was indexed and returned, and a file
\* without image extension.
C8_Witness ==
    /\ pc = "returned"
    /\ \E p \in pathsIn(result) : ~isImgAnyCase(p) /\ p \in indexed
    /\ \E p \in pathsOf(disk) : p \notin ExpectedImages

----------------------------------------------------------------------------
\* C9. Stored records are write-once and never removed: every step keeps
\* every row of the database file and, while the connection lives, every row
\* the connection sees, with its label; an iteration of processImgs on a file
\* whose hash has a row neither calls the classifier nor writes; fileByClass
\* never writes.
keepsRows(old, new) ==
    /\ Range(old) \subseteq Range(new)
    /\ \A i \in 1..Len(new) :
          (new[i].hash \in hashesOf(old)) => new[i] \in Range(old)

C9_WriteOnce ==
    [][/\ keepsRows(committed, committed')
       /\ (pc \in {"index", "reconcile"} /\ pc' # "idle") => keepsRows(view, view')
       /\ (pc = "index" /\ files # <<>> /\ entryAt(disk, Head(files)).ok
             /\ md5(entryAt(disk, Head(files)).data) \in hashesOf(view))
            => (classified' = classified /\ view' = view)
       /\ pc = "reconcile" => (view' = view /\ (committed' = committed \/ committed' = view))
      ]_vars

\* processImgs has passed over a file whose hash was stored by an earlier
\* run, without classifying it, and inserted a row for another file.
C9_Witness ==
    /\ pc = "index"
    /\ files = <<>>
    /\ ~fresh
    /\ classified # {}
    /\ hashed \ classified # {}
    /\ Len(view) > Len(committed)

----------------------------------------------------------------------------
\* C10. Soundness of the reconciliation output: every path listed under a
\* label, in classDict while fileByClass runs and in the result returned, is
\* yielded by the current traversal and its content hash is the hash of a
\* stored row with that label; no path is listed twice; no two listed paths
\* have the same hash, so there are at most as many paths as rows; and
\* every label of the store is a key of the mapping returned.
soundMapping(cd, tbl) ==
    /\ \A l \in DOMAIN cd : \A n \in 1..Len(cd[l]) :
          /\ cd[l][n] \in Range(imgPaths(disk))
          /\ entryAt(disk, cd[l][n]).ok
          /\ Row(md5(entryAt(disk, cd[l][n]).data), l) \in Range(tbl)
    /\ countIn(cd) = Cardinality(pathsIn(cd))
    /\ \A p, q \in pathsIn(cd) :
          entryAt(disk, p).data = entryAt(disk, q).data => p = q
    /\ countIn(cd) <= Len(tbl)

C10_SoundOutput ==
    /\ pc \in {"reconcile", "raised"} => soundMapping(classDict, view)
    /\ pc = "returned" => /\ soundMapping(result, committed)
                          /\ labelsOf(committed) \subseteq DOMAIN result

\* classifyPath returned a mapping with a resolved path while a second file
\* has the same content and a stored row has no file at all.
C10_Witness ==
    /\ pc = "returned"
    /\ \E i, j \in imageAt(disk) : i # j /\ disk[i].data = disk[j].data
    /\ countIn(result) = 1
    /\ Len(committed) = 2

====
